---- MODULE Spec2Model ----
(***************************************************************************)
(* Model of the LYRIQ AirTag tracker: extract_location.py (one extraction  *)
(* run: locate the Find My cache, convert it with plutil, build the item   *)
(* list, find the AirTag, detect a change against location_history.json)   *)
(* and tracker_daemon.py (the poll loop that refreshes Find My, runs the   *)
(* extractor as a child process with a timeout, and pushes to GitHub).     *)
(***************************************************************************)
EXTENDS Integers, Sequences, FiniteSets, TLC

(***************************************************************************)
(* Python values.  Every value is a tuple whose first element is a tag, so *)
(* that values of different Python types compare unequal:                  *)
(*   Absent   the key is not in the dict (dict.get returns its default)    *)
(*   None     Python None / JSON null                                      *)
(*   Num(v)   a float; latitudes and longitudes are small integers that    *)
(*            stand for distinct floats                                    *)
(*   Str(s)   a string, s a sequence of one-character strings              *)
(*   Map(m)   a dict (the nested "location" mapping)                       *)
(*   Addr(n)  the "address" mapping: Addr(0) is {}, Addr(n) a filled one   *)
(***************************************************************************)
Absent == <<>>

None == <<0>>

Num(v) == <<1, v>>

Str(s) == <<2, s>>

Map(m) == <<3, m>>

Addr(n) == <<4, n>>

IsNum(x) == Len(x) = 2 /\ x[1] = 1

IsStr(x) == Len(x) = 2 /\ x[1] = 2

IsMap(x) == Len(x) = 2 /\ x[1] = 3

\* dict.get(key, default) on a slot of a modelled dict.
Get(slot, default) == IF slot = Absent THEN default ELSE slot

\* dict.get(key): the default is None.
Get0(slot) == Get(slot, None)

(***************************************************************************)
(* Strings: str.lower() and the substring test `a in b`.                   *)
(***************************************************************************)
UpperChars == <<"A","B","C","D","E","F","G","H","I","J","K","L","M",
                "N","O","P","Q","R","S","T","U","V","W","X","Y","Z">>

LowerChars == <<"a","b","c","d","e","f","g","h","i","j","k","l","m",
                "n","o","p","q","r","s","t","u","v","w","x","y","z">>

LowerChar(c) ==
    IF \E i \in 1..Len(UpperChars) : UpperChars[i] = c
    THEN LowerChars[CHOOSE i \in 1..Len(UpperChars) : UpperChars[i] = c]
    ELSE c

lower(s) == [i \in 1..Len(s) |-> LowerChar(s[i])]

\* Python `a in b` for strings.
contains(a, b) ==
    \E i \in 0..(Len(b) - Len(a)) : SubSeq(b, i + 1, i + Len(a)) = a

AIRTAG_NAME == <<"E","R","A","U","B","C","U"," ","L","Y","R","I","Q">>

Unknown == <<"U","n","k","n","o","w","n">>

(***************************************************************************)
(* Dicts.  An item of the item list is a dict; the model gives it one slot *)
(* for each key the program reads, Absent when the key is not there.       *)
(* ("raw", which the program writes and never reads, has no slot.)         *)
(***************************************************************************)
Item(n, loc, lat, lon, acc, ts, addr) ==
    [name |-> n, location |-> loc, latitude |-> lat, longitude |-> lon,
     accuracy |-> acc, timestamp |-> ts, address |-> addr]

\* The nested "location" mapping of a Find My record.
Loc(lat, lon, acc, ts) ==
    [latitude |-> lat, longitude |-> lon, horizontalAccuracy |-> acc, timeStamp |-> ts]

EmptyLoc == Loc(Absent, Absent, Absent, Absent)

EmptyDict == Item(Absent, Absent, Absent, Absent, Absent, Absent, Absent)

\* Python truthiness of the values the program tests with `if x`.
Truthy(x) ==
    CASE x = Absent -> FALSE
      [] x = None -> FALSE
      [] IsNum(x) -> x[2] # 0
      [] IsStr(x) -> x[2] # <<>>
      [] IsMap(x) -> x[2] # EmptyLoc
      [] OTHER -> TRUE

(***************************************************************************)
(* find_airtag: exact match first, then partial match, each in list order. *)
(***************************************************************************)
\* item.get("name", "")
item_name(item) == Get(item.name, Str(<<>>))[2]

\* The loop of the exact pass from index i on: the index that returns, 0 if none.
RECURSIVE ExactPass(_, _, _)
ExactPass(items, name_lower, i) ==
    IF i > Len(items) THEN 0
    ELSE IF lower(item_name(items[i])) = name_lower THEN i
    ELSE ExactPass(items, name_lower, i + 1)

\* The loop of the partial pass from index i on.
RECURSIVE PartialPass(_, _, _)
PartialPass(items, name_lower, i) ==
    IF i > Len(items) THEN 0
    ELSE IF \/ contains(name_lower, lower(item_name(items[i])))
            \/ contains(lower(item_name(items[i])), name_lower) THEN i
    ELSE PartialPass(items, name_lower, i + 1)

\* A find_airtag that makes one pass and takes the first item matching either way.
find_airtag_index_one_pass(items, name) == PartialPass(items, lower(name), 1)

\* The index find_airtag returns the item of, 0 when it returns None.
find_airtag_index(items, name) ==
    LET name_lower == lower(name)
        e == ExactPass(items, name_lower, 1)
    IN  IF e # 0 THEN e ELSE PartialPass(items, name_lower, 1)

\* find_airtag's result: <<item>>, or <<>> for None.
find_airtag(items, name) ==
    LET i == find_airtag_index(items, name)
    IN  IF i = 0 THEN <<>> ELSE <<items[i]>>

(***************************************************************************)
(* parse_raw_plutil_output.  A line of the `plutil -p` dump is modelled by *)
(* the one key it shows and the value after "=>": [key |-> "name", val |-> *)
(* Str(s)], [key |-> "latitude", val |-> Num(v)], ... or key "other" for a *)
(* line none of the five patterns matches.                                 *)
(***************************************************************************)
Line(k, v) == [key |-> k, val |-> v]

\* pattern.search(line) followed by group(1) (and float() for the numbers):
\* Absent when the pattern does not match.
search(key, line) == IF line.key = key THEN line.val ELSE Absent

\* The parser's locals before the loop (lines 70-86).
ParserInit ==
    [current_name |-> None, current_lat |-> None, current_lon |-> None,
     current_acc |-> None, current_ts |-> None, items |-> <<>>]

\* The dict appended at lines 94-100 and 123-129.
PendingItem(st) ==
    Item(st.current_name, Absent, st.current_lat, st.current_lon,
         st.current_acc, st.current_ts, Absent)

\* `if current_name and current_lat is not None`
PendingComplete(st) == Truthy(st.current_name) /\ st.current_lat # None

\* A name branch that flushes but forgets to reset latitude and longitude.
NameStepNoReset(st, line) ==
    LET name_match == search("name", line)
    IN  IF name_match = Absent THEN st
        ELSE [st EXCEPT
                !.items = IF PendingComplete(st)
                          THEN Append(st.items, PendingItem(st))
                          ELSE st.items,
                !.current_name = name_match]

\* A name branch that resets accuracy and timestamp along with the coordinates.
NameStepResetAll(st, line) ==
    LET name_match == search("name", line)
    IN  IF name_match = Absent THEN st
        ELSE [st EXCEPT
                !.items = IF PendingComplete(st)
                          THEN Append(st.items, PendingItem(st))
                          ELSE st.items,
                !.current_name = name_match,
                !.current_lat = None,
                !.current_lon = None,
                !.current_acc = None,
                !.current_ts = None]

\* Lines 90-103: the name branch of the loop body.
NameStep(st, line) ==
    LET name_match == search("name", line)
    IN  IF name_match = Absent THEN st
        ELSE [st EXCEPT
                !.items = IF PendingComplete(st)
                          THEN Append(st.items, PendingItem(st))
                          ELSE st.items,
                !.current_name = name_match,
                !.current_lat = None,
                !.current_lon = None]

\* Lines 105-119: the four numeric patterns.
FieldStep(st, line) ==
    LET lat_match == search("latitude", line)
        lon_match == search("longitude", line)
        acc_match == search("horizontalAccuracy", line)
        ts_match == search("timeStamp", line)
    IN  [st EXCEPT
           !.current_lat = IF lat_match # Absent THEN lat_match ELSE @,
           !.current_lon = IF lon_match # Absent THEN lon_match ELSE @,
           !.current_acc = IF acc_match # Absent THEN acc_match ELSE @,
           !.current_ts = IF ts_match # Absent THEN ts_match ELSE @]

\* One iteration of `for line in lines`.
LineStep(st, line) == FieldStep(NameStep(st, line), line)

RECURSIVE ScanLines(_, _, _)
ScanLines(lines, i, st) ==
    IF i > Len(lines) THEN st
    ELSE ScanLines(lines, i + 1, LineStep(st, lines[i]))

parse_raw_plutil_output(lines) ==
    LET st == ScanLines(lines, 1, ParserInit)
    IN  IF PendingComplete(st) THEN Append(st.items, PendingItem(st)) ELSE st.items

(***************************************************************************)
(* The value plutil hands back.  data.type is "list" (a JSON array, elems  *)
(* its records), "dict" (a JSON object; objects_key says whether it has a  *)
(* "$objects" key and elems is that key's array), "other" (any other JSON  *)
(* value), "str" (the text of `plutil -p`, elems its lines) or "none".     *)
(***************************************************************************)
Data(t, e, k) == [type |-> t, elems |-> e, objects_key |-> k]

NoData == Data("none", <<>>, FALSE)

\* A parsed_item that gives a record without a location the coordinates (0, 0).
parsed_item_default_zero(item) ==
    LET loc == Get0(item.location)
    IN  IF Truthy(loc) /\ IsMap(loc)
        THEN Item(Get(item.name, Str(Unknown)), Absent,
                  Get0(loc[2].latitude), Get0(loc[2].longitude),
                  Get0(loc[2].horizontalAccuracy), Get0(loc[2].timeStamp),
                  Get(item.address, Addr(0)))
        ELSE Item(Get(item.name, Str(Unknown)), Absent,
                  Num(0), Num(0), Absent, Absent, Absent)

\* Lines 201-212: the dict built for one record of the JSON array.
parsed_item(item) ==
    LET loc == Get0(item.location)
    IN  IF Truthy(loc) /\ IsMap(loc)
        THEN Item(Get(item.name, Str(Unknown)), Absent,
                  Get0(loc[2].latitude), Get0(loc[2].longitude),
                  Get0(loc[2].horizontalAccuracy), Get0(loc[2].timeStamp),
                  Get(item.address, Addr(0)))
        ELSE Item(Get(item.name, Str(Unknown)), Absent,
                  Absent, Absent, Absent, Absent, Absent)

\* Lines 195-221: the item list for the loaded data.
build_items(data, format_type) ==
    IF format_type = "json"
    THEN CASE data.type = "list" ->
                [i \in 1..Len(data.elems) |-> parsed_item(data.elems[i])]
           [] data.type = "dict" ->
                IF data.objects_key THEN data.elems ELSE <<>>
           [] OTHER -> <<>>
    ELSE parse_raw_plutil_output(data.elems)

(***************************************************************************)
(* load_findmy_items_via_plutil.  A cache file tells how each plutil call  *)
(* on it ends: json_run is "ok" (exit 0, output parses), "malformed" (exit *)
(* 0, json.loads raises), "nonzero" or "exception"; raw_run is "ok",       *)
(* "nonzero" or "exception".  calls lists the plutil invocations made.     *)
(***************************************************************************)
CacheFile(jr, jd, rr, rl) ==
    [json_run |-> jr, json_data |-> jd, raw_run |-> rr, raw_lines |-> rl]

\* What the loader hands back: the pair it returns, the plutil calls it made,
\* and whether an exception left it instead of a return.
Loaded(d, f, c) == [data |-> d, format_type |-> f, calls |-> c, raised |-> FALSE]

\* A loader whose first `except` lets a json.loads error through.
load_json_error_escapes(cache_file) ==
    IF cache_file.json_run = "ok"
    THEN Loaded(cache_file.json_data, "json", <<"json">>)
    ELSE IF cache_file.json_run = "malformed"
    THEN [Loaded(NoData, "none", <<"json">>) EXCEPT !.raised = TRUE]
    ELSE IF cache_file.raw_run = "ok"
    THEN Loaded(Data("str", cache_file.raw_lines, FALSE), "raw", <<"json", "raw">>)
    ELSE Loaded(NoData, "none", <<"json", "raw">>)

load_findmy_items_via_plutil(cache_file) ==
    IF cache_file.json_run = "ok"
    THEN Loaded(cache_file.json_data, "json", <<"json">>)
    ELSE IF cache_file.raw_run = "ok"
    THEN Loaded(Data("str", cache_file.raw_lines, FALSE), "raw", <<"json", "raw">>)
    ELSE Loaded(NoData, "none", <<"json", "raw">>)

\* find_cache_file: the index of the first existing path of CACHE_LOCATIONS, 0 if none.
RECURSIVE FirstExisting(_, _)
FirstExisting(exists, i) ==
    IF i > Len(exists) THEN 0
    ELSE IF exists[i] THEN i
    ELSE FirstExisting(exists, i + 1)

find_cache_file(exists) == FirstExisting(exists, 1)

(***************************************************************************)
(* The candidate location (lines 263-273).  Timestamps are counted in      *)
(* units of 1000 (seconds or milliseconds), so that 1e12 is MsThreshold    *)
(* units; the inputs above it are whole multiples of MsFactor units, on    *)
(* which Python's `/ 1000` is exact.                                       *)
(***************************************************************************)
MsThreshold == 1000000000

MsFactor == 1000

\* A normalization that divides every nonzero timestamp.
normalize_timestamp_always(ts) ==
    IF Truthy(ts) /\ IsNum(ts) THEN Num(ts[2] \div MsFactor) ELSE ts

\* Lines 271-273.
normalize_timestamp(ts) ==
    IF Truthy(ts) /\ IsNum(ts) /\ ts[2] > MsThreshold
    THEN Num(ts[2] \div MsFactor)
    ELSE ts

Entry(lat, lon, acc, ts, addr, at) ==
    [latitude |-> lat, longitude |-> lon, accuracy |-> acc, timestamp |-> ts,
     address |-> addr, recorded_at |-> at]

\* Lines 263-273; recorded_at is not set yet.
candidate_location(airtag) ==
    Entry(Get0(airtag.latitude), Get0(airtag.longitude), Get0(airtag.accuracy),
          normalize_timestamp(Get(airtag.timestamp, Num(0))),
          Get(airtag.address, Addr(0)), Absent)

\* A comparison that looks at the latitude alone.
is_new_location_lat_only(locations, location) ==
    IF locations # <<>>
    THEN Get0(locations[Len(locations)].latitude) # location.latitude
    ELSE TRUE

\* A comparison that never finds the location unchanged.
is_new_location_always(locations, location) == TRUE

\* A comparison with the first entry of the log instead of the last.
is_new_location_vs_first(locations, location) ==
    IF locations # <<>>
    THEN LET first == locations[1]
         IN  ~(Get0(first.latitude) = location.latitude
               /\ Get0(first.longitude) = location.longitude)
    ELSE TRUE

\* Lines 278-283.
is_new_location(locations, location) ==
    IF locations # <<>>
    THEN LET last == locations[Len(locations)]
         IN  ~(Get0(last.latitude) = location.latitude
               /\ Get0(last.longitude) = location.longitude)
    ELSE TRUE

(***************************************************************************)
(* location_history.json.  The file holds JSON: json.dump writes None as   *)
(* null, a float as a JSON number, the address dict as a JSON object and   *)
(* the isoformat() stamp as a JSON string; json.load reads them back.      *)
(***************************************************************************)
JNull == <<10>>

JNumber(v) == <<11, v>>

JObject(n) == <<14, n>>

JString(t) == <<12, t>>

\* datetime.now().isoformat() at clock reading t.
Stamp(t) == <<5, t>>

json_dump_value(x) ==
    CASE x = None -> JNull
      [] x[1] = 1 -> JNumber(x[2])
      [] x[1] = 4 -> JObject(x[2])
      [] x[1] = 5 -> JString(x[2])

json_load_value(j) ==
    CASE j = JNull -> None
      [] j[1] = 11 -> Num(j[2])
      [] j[1] = 14 -> Addr(j[2])
      [] j[1] = 12 -> Stamp(j[2])

EntryKeys == {"latitude", "longitude", "accuracy", "timestamp", "address", "recorded_at"}

json_dump(locations) ==
    [i \in 1..Len(locations) |-> [k \in EntryKeys |-> json_dump_value(locations[i][k])]]

json_load(text) ==
    [i \in 1..Len(text) |-> [k \in EntryKeys |-> json_load_value(text[i][k])]]

\* The file: absent, or holding text that json.load parses or not.
HistoryFile(e, p, t) == [exists |-> e, parses |-> p, text |-> t]

NoHistoryFile == HistoryFile(FALSE, FALSE, <<>>)

\* Line 158: the history of a run that finds no file.
empty_history == [airtag_name |-> AIRTAG_NAME, locations |-> <<>>]

\* load_history when it returns (the file is absent or parses): history["locations"].
load_history(file) ==
    IF file.exists THEN json_load(file.text) ELSE empty_history.locations

\* A save_history that writes the newest entry alone.
save_history_latest_only(locations) ==
    HistoryFile(TRUE, TRUE, json_dump(SubSeq(locations, Len(locations), Len(locations))))

\* save_history: the whole file is overwritten.
save_history(locations) == HistoryFile(TRUE, TRUE, json_dump(locations))

(***************************************************************************)
(* State.                                                                  *)
(*  The machine: the two CACHE_LOCATIONS, location_history.json, the git   *)
(*  checkout.  The daemon: its place in main() and what the current cycle  *)
(*  did.  The extractor child process: its place in main() and its locals. *)
(***************************************************************************)
VARIABLES
    cache,            \* [exists, files]: the two cache paths and what plutil makes of each
    history_file,     \* location_history.json
    git_dir,          \* whether SCRIPT_DIR/.git exists
    git_head,         \* location_history.json as last committed
    git_remote,       \* location_history.json as last pushed
    dpc,              \* daemon: "refresh", "settle", "run_extractor", "wait", "decide", "sleep"
    cycle,            \* daemon: number of the current cycle; the clock of recorded_at
    new_location,     \* daemon: what run_extractor returned
    daemon_log,       \* daemon: what run_extractor logged this cycle
    push_invoked,     \* daemon: push_to_github was called this cycle
    git_calls,        \* daemon: the git commands push_to_github ran this cycle
    epc,              \* extractor: "off", "locate", "build", "detect", "record",
                      \*            "unchanged", "finish", "done", "crashed", "killed"
    cache_path,       \* extractor: index of the cache file found, 0 for None
    data,             \* extractor: data
    format_type,      \* extractor: format_type
    items,            \* extractor: items
    airtag,           \* extractor: <<airtag>>, <<>> for None
    location,         \* extractor: <<location>>, <<>> before line 263
    history,          \* extractor: <<history["locations"]>>, <<>> before line 276
    stdout,           \* extractor: the messages printed
    run_start_file,   \* location_history.json when the child was started
    cycle_start_file, \* location_history.json when the cycle began
    prev_run,         \* <<[cache, file]>> of the previous run if it exited by itself
    saved,            \* the child has called save_history
    fn_in,            \* input of the function under study (function specifications)
    fn_out,           \* its result, <<>> before it is applied
    refresh_failed,   \* refresh_findmy_cache logged a failure and run_extractor is yet to come
    prev_publish_failed \* the git commands of the cycle before this one did not
                      \* bring location_history.json to the remote

machineVars == <<cache, history_file, git_dir, git_head, git_remote>>

daemonVars == <<dpc, cycle, new_location, daemon_log, push_invoked, git_calls>>

localVars == <<cache_path, data, format_type, items, airtag, location, history, stdout>>

ghostVars == <<run_start_file, cycle_start_file, prev_run, saved>>

fnVars == <<fn_in, fn_out>>

cycleVars == <<refresh_failed, prev_publish_failed>>

vars == <<machineVars, daemonVars, epc, localVars, ghostVars, fnVars, cycleVars>>

(***************************************************************************)
(* Bounds and the inputs drawn.                                            *)
(***************************************************************************)
MaxCycles == 2

Keys == <<"K","e","y","s">>

Lyriq == <<"l","y","r","i","q">>

\* A record of the JSON array: name n, nested location loc, address a.
Rec(n, loc, a) == Item(n, loc, Absent, Absent, Absent, Absent, a)

\* An "$objects" element that carries its coordinates at the top level.
Flat(n, lat, lon) == Item(n, Absent, lat, lon, Absent, Absent, Absent)

NoFile == CacheFile("nonzero", NoData, "nonzero", <<>>)

JsonFile(d) == CacheFile("ok", d, "ok", <<>>)

RawFile(jr, lines) == CacheFile(jr, NoData, "ok", lines)

KeysRec == Rec(Str(Keys), Absent, Absent)

CacheFiles ==
    { \* the AirTag at (1, 1), timestamp in seconds
      JsonFile(Data("list", <<KeysRec,
          Rec(Str(AIRTAG_NAME), Map(Loc(Num(1), Num(1), Num(5), Num(1715000))), Addr(1))>>, FALSE)),
      \* the AirTag at (2, 1), timestamp in milliseconds, found by partial match
      JsonFile(Data("list", <<
          Rec(Str(Lyriq), Map(Loc(Num(2), Num(1), Absent, Num(1715000000))), Absent)>>, FALSE)),
      \* the AirTag at (2, 1), timestamp 1e12 exactly
      JsonFile(Data("list", <<
          Rec(Str(AIRTAG_NAME), Map(Loc(Num(2), Num(1), Absent, Num(1000000000))), Absent)>>, FALSE)),
      \* the AirTag at (1, 0), no timeStamp
      JsonFile(Data("list", <<
          Rec(Str(AIRTAG_NAME), Map(Loc(Num(1), Num(0), Absent, Absent)), Absent)>>, FALSE)),
      \* the AirTag without a longitude, without a location
      JsonFile(Data("list", <<
          Rec(Str(AIRTAG_NAME), Map(Loc(Num(1), Absent, Absent, Absent)), Absent)>>, FALSE)),
      JsonFile(Data("list", <<Rec(Str(AIRTAG_NAME), Absent, Absent)>>, FALSE)),
      \* no AirTag of that name; no records; not an array
      JsonFile(Data("list", <<KeysRec>>, FALSE)),
      JsonFile(Data("list", <<>>, FALSE)),
      JsonFile(Data("other", <<>>, FALSE)),
      \* an "$objects" mapping
      JsonFile(Data("dict", <<
          Rec(Str(AIRTAG_NAME), Map(Loc(Num(1), Num(1), Num(5), Num(1715000))), Addr(1))>>, TRUE)),
      JsonFile(Data("dict", <<Flat(Str(AIRTAG_NAME), Num(2), Num(1))>>, TRUE)),
      \* plutil -convert json fails, plutil -p prints the dump
      RawFile("nonzero", <<Line("name", Str(Keys)), Line("other", None),
                           Line("name", Str(AIRTAG_NAME)), Line("latitude", Num(1)),
                           Line("longitude", Num(1)), Line("timeStamp", Num(1715000000))>>),
      RawFile("malformed", <<Line("name", Str(AIRTAG_NAME)), Line("latitude", Num(2)),
                             Line("longitude", Num(1))>>),
      \* both plutil calls fail
      CacheFile("exception", NoData, "exception", <<>>) }

\* Items.data and Devices.data: what exists, and what plutil makes of each.
CacheChoices ==
    {[exists |-> <<TRUE, FALSE>>, files |-> <<f, NoFile>>] : f \in CacheFiles}
    \cup {[exists |-> <<FALSE, FALSE>>, files |-> <<NoFile, NoFile>>],
          [exists |-> <<FALSE, TRUE>>, files |-> <<NoFile,
              JsonFile(Data("list", <<
                  Rec(Str(AIRTAG_NAME), Map(Loc(Num(1), Num(1), Num(5), Num(1715000))), Addr(1))>>,
                  FALSE))>>]}

\* location_history.json before the daemon starts: absent, unparseable, or one entry.
InitialHistoryFiles ==
    {NoHistoryFile,
     HistoryFile(TRUE, FALSE, <<>>),
     save_history(<<Entry(Num(1), Num(1), None, Num(1715000), Addr(0), Stamp(0))>>)}

(***************************************************************************)
(* extract_location.py main(), as the steps of the child process.          *)
(***************************************************************************)
printed(msg, out) == \E i \in 1..Len(out) : out[i] = msg

\* `if not airtag` (line 250): None, or a dict with no key at all.
not_airtag(found) == found = <<>> \/ found[1] = EmptyDict

\* A check that gives up only when both coordinates are missing.
no_location_data_both(lat, lon) == lat = None /\ lon = None

\* `if lat is None or lon is None` (line 259).
no_location_data(lat, lon) == lat = None \/ lon = None

\* Lines 286-287: stamp the location, append it.
append_location(locations, loc, now) ==
    Append(locations, [loc EXCEPT !.recorded_at = Stamp(now)])

\* Lines 171-192: find the cache file, load it with plutil.
ExtractorLocate ==
    /\ epc = "locate"
    /\ LET p == find_cache_file(cache.exists)
       IN  /\ cache_path' = p
           /\ IF p = 0
              THEN /\ stdout' = Append(stdout, "Find My cache not found")
                   /\ epc' = "done"
                   /\ UNCHANGED <<data, format_type>>
              ELSE LET r == load_findmy_items_via_plutil(cache.files[p])
                   IN  IF r.raised
                       THEN /\ epc' = "crashed"
                            /\ UNCHANGED <<data, format_type, stdout>>
                       ELSE IF r.data = NoData
                       THEN /\ stdout' = Append(stdout, "Could not read Find My cache")
                            /\ epc' = "done"
                            /\ UNCHANGED <<data, format_type>>
                       ELSE /\ data' = r.data
                            /\ format_type' = r.format_type
                            /\ epc' = "build"
                            /\ UNCHANGED stdout
    /\ UNCHANGED <<machineVars, daemonVars, items, airtag, location, history,
                   ghostVars, fnVars, cycleVars>>

\* Lines 194-273: build the item list, find the AirTag, build the candidate.
ExtractorBuild ==
    /\ epc = "build"
    /\ LET its == build_items(data, format_type)
           found == find_airtag(its, AIRTAG_NAME)
       IN  /\ items' = its
           /\ IF its = <<>>
              THEN /\ stdout' = Append(stdout, "No items found in cache")
                   /\ epc' = "done"
                   /\ UNCHANGED <<airtag, location>>
              ELSE IF not_airtag(found)
              THEN /\ stdout' = Append(stdout, "Could not find AirTag")
                   /\ epc' = "done"
                   /\ airtag' = found
                   /\ UNCHANGED location
              ELSE IF no_location_data(Get0(found[1].latitude), Get0(found[1].longitude))
              THEN /\ stdout' = Append(stdout, "No location data available")
                   /\ epc' = "done"
                   /\ airtag' = found
                   /\ UNCHANGED location
              ELSE /\ airtag' = found
                   /\ location' = <<candidate_location(found[1])>>
                   /\ epc' = "detect"
                   /\ UNCHANGED stdout
    /\ UNCHANGED <<machineVars, daemonVars, cache_path, data, format_type, history,
                   ghostVars, fnVars, cycleVars>>

\* A change detection whose load_history falls back to the empty history when
\* the file does not parse.
ExtractorDetectRecovers ==
    /\ epc = "detect"
    /\ LET locations == IF history_file.exists /\ history_file.parses
                        THEN json_load(history_file.text)
                        ELSE empty_history.locations
       IN  /\ history' = <<locations>>
           /\ IF is_new_location(locations, location[1])
              THEN /\ epc' = "record"
                   /\ UNCHANGED stdout
              ELSE /\ epc' = "finish"
                   /\ stdout' = Append(stdout, "Location unchanged since last check")
    /\ UNCHANGED <<machineVars, daemonVars, cache_path, data, format_type, items,
                   airtag, location, ghostVars, fnVars, cycleVars>>

\* Lines 275-283 and 290-291: load the history, compare with its last entry.
\* json.load raises on a file that does not parse, and nothing catches it.
ExtractorDetect ==
    /\ epc = "detect"
    /\ IF history_file.exists /\ ~history_file.parses
       THEN /\ epc' = "crashed"
            /\ UNCHANGED <<history, stdout>>
       ELSE LET locations == load_history(history_file)
            IN  /\ history' = <<locations>>
                /\ IF is_new_location(locations, location[1])
                   THEN /\ epc' = "record"
                        /\ UNCHANGED stdout
                   ELSE /\ epc' = "finish"
                        /\ stdout' = Append(stdout, "Location unchanged since last check")
    /\ UNCHANGED <<machineVars, daemonVars, cache_path, data, format_type, items,
                   airtag, location, ghostVars, fnVars, cycleVars>>

\* Lines 285-289: stamp, append, save the whole history, report.
ExtractorRecord ==
    /\ epc = "record"
    /\ LET locations == append_location(history[1], location[1], cycle)
       IN  /\ history' = <<locations>>
           /\ location' = <<locations[Len(locations)]>>
           /\ history_file' = save_history(locations)
    /\ saved' = TRUE
    /\ stdout' = Append(stdout, "New location recorded!")
    /\ epc' = "finish"
    /\ UNCHANGED <<cache, git_dir, git_head, git_remote, daemonVars, cache_path, data,
                   format_type, items, airtag, run_start_file, cycle_start_file,
                   prev_run, fnVars, cycleVars>>

\* Lines 293-316: print the current location; main returns and the process exits.
ExtractorFinish ==
    /\ epc = "finish"
    /\ epc' = "done"
    /\ UNCHANGED <<machineVars, daemonVars, localVars, ghostVars, fnVars, cycleVars>>

(***************************************************************************)
(* tracker_daemon.py.                                                      *)
(***************************************************************************)
GITHUB_PUSH_ENABLED == TRUE

\* run_extractor, lines 102-121: what it returns and what it logs for the
\* child's stdout.
run_extractor_result(out) ==
    IF printed("New location recorded!", out)
    THEN [new_location |-> TRUE, log |-> "new"]
    ELSE IF printed("Location unchanged since last check", out)
    THEN [new_location |-> FALSE, log |-> "unchanged"]
    ELSE [new_location |-> FALSE, log |-> "indeterminate"]

\* A daemon that pushes after every cycle.
should_push_always(new_loc) == TRUE

\* A daemon that also pushes whenever the remote is behind the file.
should_push_or_behind(new_loc) == new_loc \/ git_remote # history_file

\* `if new_location: push_to_github()` (lines 180 and 195).
should_push(new_loc) == new_loc

\* How the three git commands of one publish end.
GitOutcomes == [add : {"ok", "raise"}, commit : {"ok", "fail", "raise"},
                push : {"ok", "fail", "raise"}]

\* A push_to_github that goes on to `git push` whatever `git commit` printed.
push_to_github_always_pushes(file, head, remote, is_repo, o) ==
    IF ~GITHUB_PUSH_ENABLED \/ ~is_repo
    THEN [head |-> head, remote |-> remote, calls |-> <<>>]
    ELSE IF o.add = "raise"
    THEN [head |-> head, remote |-> remote, calls |-> <<"add">>]
    ELSE IF o.commit = "raise"
    THEN [head |-> head, remote |-> remote, calls |-> <<"add", "commit">>]
    ELSE LET committed == IF o.commit = "ok" THEN file ELSE head
         IN  [head |-> committed,
              remote |-> IF o.push = "ok" THEN committed ELSE remote,
              calls |-> <<"add", "commit", "push">>]

\* push_to_github, lines 38-88: the new committed and pushed file, and the
\* git commands run.
push_to_github(file, head, remote, is_repo, o) ==
    IF ~GITHUB_PUSH_ENABLED \/ ~is_repo
    THEN [head |-> head, remote |-> remote, calls |-> <<>>]
    ELSE IF o.add = "raise"
    THEN [head |-> head, remote |-> remote, calls |-> <<"add">>]
    ELSE IF o.commit = "raise"
    THEN [head |-> head, remote |-> remote, calls |-> <<"add", "commit">>]
    ELSE IF o.commit = "ok" /\ file = head
    THEN \* "nothing to commit"
         [head |-> head, remote |-> remote, calls |-> <<"add", "commit">>]
    ELSE LET committed == IF o.commit = "ok" THEN file ELSE head
         IN  [head |-> committed,
              remote |-> IF o.push = "ok" THEN committed ELSE remote,
              calls |-> <<"add", "commit", "push">>]

\* refresh_findmy_cache (lines 131-161), first step of a cycle.  It returns
\* nothing: when `open` or `osascript` raises or times out it logs the
\* failure (line 153) and returns all the same.
DaemonRefresh ==
    /\ dpc = "refresh"
    /\ dpc' = "settle"
    /\ refresh_failed' \in BOOLEAN
    /\ daemon_log' = "none"
    /\ push_invoked' = FALSE
    /\ git_calls' = <<>>
    /\ cycle_start_file' = history_file
    /\ UNCHANGED <<machineVars, cycle, new_location, epc, localVars,
                   run_start_file, prev_run, saved, fnVars, prev_publish_failed>>

\* Find My rewrites its cache, to one of the given contents, while the daemon
\* waits for the sync.
CacheSyncFrom(choices) ==
    /\ dpc = "settle"
    /\ cache' \in choices \ {cache}
    /\ UNCHANGED <<history_file, git_dir, git_head, git_remote, daemonVars, epc,
                   localVars, ghostVars, fnVars, cycleVars>>

CacheSync == CacheSyncFrom(CacheChoices)

\* time.sleep(3) / time.sleep(5), lines 178 and 190.
DaemonSettle ==
    /\ dpc = "settle"
    /\ dpc' = "run_extractor"
    /\ UNCHANGED <<machineVars, cycle, new_location, daemon_log, push_invoked,
                   git_calls, epc, localVars, ghostVars, fnVars, cycleVars>>

\* The locals of a child process that is not running, or has just started.
NoLocals ==
    /\ cache_path' = 0
    /\ data' = NoData
    /\ format_type' = "none"
    /\ items' = <<>>
    /\ airtag' = <<>>
    /\ location' = <<>>
    /\ history' = <<>>
    /\ stdout' = <<>>

\* run_extractor, line 94: subprocess.run starts the child.
DaemonSpawn ==
    /\ dpc = "run_extractor"
    /\ dpc' = "wait"
    /\ epc' = "locate"
    /\ NoLocals
    /\ run_start_file' = history_file
    /\ saved' = FALSE
    /\ refresh_failed' = FALSE
    /\ UNCHANGED <<machineVars, cycle, new_location, daemon_log, push_invoked,
                   git_calls, cycle_start_file, prev_run, fnVars, prev_publish_failed>>

\* A run_extractor without its `except Exception`: the error leaves main and
\* the daemon ends.
DaemonSpawnErrorEscapes ==
    /\ dpc = "run_extractor"
    /\ dpc' = "stopped"
    /\ new_location' = FALSE
    /\ daemon_log' = "error"
    /\ prev_run' = <<>>
    /\ refresh_failed' = FALSE
    /\ UNCHANGED <<machineVars, cycle, push_invoked, git_calls, epc, localVars,
                   run_start_file, cycle_start_file, saved, fnVars, prev_publish_failed>>

\* run_extractor, lines 126-128: subprocess.run raises before a child runs.
DaemonSpawnError ==
    /\ dpc = "run_extractor"
    /\ dpc' = "decide"
    /\ new_location' = FALSE
    /\ daemon_log' = "error"
    /\ prev_run' = <<>>
    /\ refresh_failed' = FALSE
    /\ UNCHANGED <<machineVars, cycle, push_invoked, git_calls, epc, localVars,
                   run_start_file, cycle_start_file, saved, fnVars, prev_publish_failed>>

\* run_extractor, lines 102-121: the child has exited (its memory is gone);
\* classify its stdout.
DaemonCollect ==
    /\ dpc = "wait"
    /\ epc \in {"done", "crashed"}
    /\ LET r == run_extractor_result(stdout)
       IN  /\ new_location' = r.new_location
           /\ daemon_log' = r.log
    /\ prev_run' = IF epc = "done"
                   THEN <<[cache |-> cache, file |-> history_file]>>
                   ELSE <<>>
    /\ epc' = "off"
    /\ NoLocals
    /\ dpc' = "decide"
    /\ UNCHANGED <<machineVars, cycle, push_invoked, git_calls,
                   run_start_file, cycle_start_file, saved, fnVars, cycleVars>>

\* A timeout that gives up waiting and leaves the child running.
DaemonTimeoutNoKill ==
    /\ dpc = "wait"
    /\ epc \in {"locate", "build", "detect", "record", "finish"}
    /\ new_location' = FALSE
    /\ daemon_log' = "timeout"
    /\ prev_run' = <<>>
    /\ dpc' = "decide"
    /\ UNCHANGED <<machineVars, cycle, push_invoked, git_calls, epc, localVars,
                   run_start_file, cycle_start_file, saved, fnVars, cycleVars>>

\* run_extractor, lines 123-125: the 60 s timeout expires, the child is killed.
DaemonTimeout ==
    /\ dpc = "wait"
    /\ epc \in {"locate", "build", "detect", "record", "finish"}
    /\ epc' = "killed"
    /\ new_location' = FALSE
    /\ daemon_log' = "timeout"
    /\ prev_run' = <<>>
    /\ NoLocals
    /\ dpc' = "decide"
    /\ UNCHANGED <<machineVars, cycle, push_invoked, git_calls,
                   run_start_file, cycle_start_file, saved, fnVars, cycleVars>>

\* Lines 180-181 and 195-196, new_location true: push_to_github().
DaemonPush ==
    /\ dpc = "decide"
    /\ should_push(new_location)
    /\ \E o \in GitOutcomes :
          LET r == push_to_github(history_file, git_head, git_remote, git_dir, o)
          IN  /\ git_head' = r.head
              /\ git_remote' = r.remote
              /\ git_calls' = r.calls
    /\ push_invoked' = TRUE
    /\ dpc' = "sleep"
    /\ UNCHANGED <<cache, history_file, git_dir, cycle, new_location, daemon_log,
                   epc, localVars, ghostVars, fnVars, cycleVars>>

\* Lines 180 and 195, new_location false: nothing is published.
DaemonSkip ==
    /\ dpc = "decide"
    /\ ~should_push(new_location)
    /\ dpc' = "sleep"
    /\ UNCHANGED <<machineVars, cycle, new_location, daemon_log, push_invoked,
                   git_calls, epc, localVars, ghostVars, fnVars, cycleVars>>

\* push_to_github ran git commands (lines 48-83) and location_history.json
\* did not reach the remote: a command raised or timed out (lines 85-88), or
\* the commit or the push failed (line 83).
publish_failed == push_invoked /\ git_calls # <<>> /\ git_remote # history_file

\* time.sleep(POLL_INTERVAL), line 186: the next cycle begins.
DaemonSleep ==
    /\ dpc = "sleep"
    /\ cycle < MaxCycles
    /\ cycle' = cycle + 1
    /\ dpc' = "refresh"
    /\ prev_publish_failed' = publish_failed
    /\ UNCHANGED <<machineVars, new_location, daemon_log, push_invoked, git_calls,
                   epc, localVars, ghostVars, fnVars, refresh_failed>>

(***************************************************************************)
(* The daemon with its extractor child.                                    *)
(***************************************************************************)
FnIdle == fn_in = <<>> /\ fn_out = <<>>

\* The daemon about to start its first cycle, no child yet, for a given
\* location_history.json and checkout.
Start ==
    /\ cache = [exists |-> <<FALSE, FALSE>>, files |-> <<NoFile, NoFile>>]
    /\ git_head = history_file
    /\ git_remote = history_file
    /\ dpc = "refresh"
    /\ cycle = 1
    /\ new_location = FALSE
    /\ daemon_log = "none"
    /\ push_invoked = FALSE
    /\ git_calls = <<>>
    /\ epc = "off"
    /\ cache_path = 0
    /\ data = NoData
    /\ format_type = "none"
    /\ items = <<>>
    /\ airtag = <<>>
    /\ location = <<>>
    /\ history = <<>>
    /\ stdout = <<>>
    /\ run_start_file = history_file
    /\ cycle_start_file = history_file
    /\ prev_run = <<>>
    /\ saved = FALSE
    /\ refresh_failed = FALSE
    /\ prev_publish_failed = FALSE

Init ==
    /\ history_file \in InitialHistoryFiles
    /\ git_dir \in BOOLEAN
    /\ Start
    /\ FnIdle

Next ==
    \/ DaemonRefresh
    \/ CacheSync
    \/ DaemonSettle
    \/ DaemonSpawn
    \/ DaemonSpawnError
    \/ DaemonCollect
    \/ DaemonTimeout
    \/ DaemonPush
    \/ DaemonSkip
    \/ DaemonSleep
    \/ ExtractorLocate
    \/ ExtractorBuild
    \/ ExtractorDetect
    \/ ExtractorRecord
    \/ ExtractorFinish

Spec == Init /\ [][Next]_vars

\* The daemon's own steps.  It is one sequential process, and each of its
\* statements returns: time.sleep after its interval, subprocess.run when the
\* child exits or when its timeout expires, the git commands likewise.
Daemon ==
    \/ DaemonRefresh
    \/ DaemonSettle
    \/ DaemonSpawn
    \/ DaemonSpawnError
    \/ DaemonCollect
    \/ DaemonTimeout
    \/ DaemonPush
    \/ DaemonSkip
    \/ DaemonSleep

\* The caches of the runs that differ for the loop: no cache file, plutil
\* failing, the AirTag at one place and at another.
LiveCacheChoices ==
    {c \in CacheChoices :
        \/ ~c.exists[1]
        \/ c.files[1].json_run = "exception"
        \/ /\ c.files[1].json_run = "ok"
           /\ c.files[1].json_data.type = "list"
           /\ Len(c.files[1].json_data.elems) = 1
           /\ c.files[1].json_data.elems[1].name = Str(AIRTAG_NAME)
           /\ IsMap(c.files[1].json_data.elems[1].location)
           /\ c.files[1].json_data.elems[1].location[2].timeStamp # Absent}

CacheSyncLive == CacheSyncFrom(LiveCacheChoices)

NextLive ==
    \/ Daemon
    \/ CacheSyncLive
    \/ ExtractorLocate
    \/ ExtractorBuild
    \/ ExtractorDetect
    \/ ExtractorRecord
    \/ ExtractorFinish

\* The daemon keeps running; nothing is assumed of the child (it may hang)
\* nor of Find My.
SpecLive == Init /\ [][NextLive]_vars /\ WF_vars(Daemon)

(***************************************************************************)
(* The functions on their own: each specification draws an input and       *)
(* applies one function to it, the daemon standing still.                  *)
(***************************************************************************)
Still == history_file = NoHistoryFile /\ git_dir = FALSE /\ Start

mainVars == <<machineVars, daemonVars, epc, localVars, ghostVars, cycleVars>>

\* All sequences over S of length at most n.
SeqsUpTo(S, n) == UNION {[1..k -> S] : k \in 0..n}

(* find_airtag *)
MaxItems == 2

MaxNameLen == 2

MatchChars == {"a", "A", "b"}

MatchNames == SeqsUpTo(MatchChars, MaxNameLen)

TargetNames == {<<"a">>, <<"A", "b">>, <<"b", "a">>}

\* The list under study grows by one item; the i-th item has latitude i, so
\* that equal names at different places of the list are different items; an
\* item may lack its name.
InitMatch ==
    /\ Still
    /\ fn_in \in [items : {<<>>}, name : TargetNames]
    /\ fn_out = <<>>

AddItem ==
    /\ fn_out = <<>>
    /\ Len(fn_in.items) < MaxItems
    /\ \E n \in {Str(m) : m \in MatchNames} \cup {Absent} :
          fn_in' = [fn_in EXCEPT
                      !.items = Append(@, Flat(n, Num(Len(@) + 1), Num(0)))]
    /\ UNCHANGED <<mainVars, fn_out>>

ApplyFindAirtag ==
    /\ fn_out = <<>>
    /\ fn_out' = <<find_airtag(fn_in.items, fn_in.name)>>
    /\ UNCHANGED <<mainVars, fn_in>>

NextMatch == AddItem \/ ApplyFindAirtag

SpecMatch == InitMatch /\ [][NextMatch]_vars

(* parse_raw_plutil_output *)
MaxLines == 6

ParseLines ==
    {Line("name", Str(<<"a">>)), Line("name", Str(<<"b">>)),
     Line("latitude", Num(1)), Line("latitude", Num(2)),
     Line("longitude", Num(1)), Line("longitude", Num(2)),
     Line("other", None)}

InitParse ==
    /\ Still
    /\ fn_in = <<>>
    /\ fn_out = <<>>

AddLine ==
    /\ fn_out = <<>>
    /\ Len(fn_in) < MaxLines
    /\ \E l \in ParseLines : fn_in' = Append(fn_in, l)
    /\ UNCHANGED <<mainVars, fn_out>>

ApplyParse ==
    /\ fn_out = <<>>
    /\ fn_out' = <<parse_raw_plutil_output(fn_in)>>
    /\ UNCHANGED <<mainVars, fn_in>>

NextParse == AddLine \/ ApplyParse

SpecParse == InitParse /\ [][NextParse]_vars

(* parse_raw_plutil_output on dumps with accuracy and timestamp lines *)
MaxFieldLines == 5

FieldParseLines ==
    {Line("name", Str(<<"a">>)), Line("name", Str(<<"b">>)),
     Line("latitude", Num(1)), Line("longitude", Num(2)),
     Line("horizontalAccuracy", Num(5)), Line("horizontalAccuracy", Num(6)),
     Line("timeStamp", Num(1715000))}

AddFieldLine ==
    /\ fn_out = <<>>
    /\ Len(fn_in) < MaxFieldLines
    /\ \E l \in FieldParseLines : fn_in' = Append(fn_in, l)
    /\ UNCHANGED <<mainVars, fn_out>>

NextFields == AddFieldLine \/ ApplyParse

SpecFields == InitParse /\ [][NextFields]_vars

(* The structured branch of main, lines 195-217 *)
MaxRecords == 2

RecordLocations ==
    {Absent, None, Str(<<"x">>)}
    \cup {Map(Loc(lat, lon, at[1], at[2])) :
            lat \in {Absent, Num(0), Num(1)}, lon \in {Absent, Num(2)},
            at \in {<<Absent, Absent>>, <<Num(5), Num(1715000)>>}}

Records ==
    {Rec(Absent, loc, Absent) : loc \in RecordLocations}
    \cup {Rec(Str(Keys), loc, Addr(1)) : loc \in RecordLocations}

InitItems ==
    /\ Still
    /\ fn_in = <<>>
    /\ fn_out = <<>>

AddRecord ==
    /\ fn_out = <<>>
    /\ Len(fn_in) < MaxRecords
    /\ \E r \in Records : fn_in' = Append(fn_in, r)
    /\ UNCHANGED <<mainVars, fn_out>>

ApplyBuildItems ==
    /\ fn_out = <<>>
    /\ fn_out' = <<build_items(Data("list", fn_in, FALSE), "json")>>
    /\ UNCHANGED <<mainVars, fn_in>>

NextItems == AddRecord \/ ApplyBuildItems

SpecItems == InitItems /\ [][NextItems]_vars

(* load_findmy_items_via_plutil *)
LoaderFiles ==
    {CacheFile(jr, jd, rr, rl) :
        jr \in {"ok", "malformed", "nonzero", "exception"},
        jd \in {Data("list", <<KeysRec>>, FALSE), Data("dict", <<>>, TRUE),
                Data("other", <<>>, FALSE)},
        rr \in {"ok", "nonzero", "exception"},
        rl \in {<<>>, <<Line("other", None)>>,
                <<Line("name", Str(Keys)), Line("latitude", Num(1))>>}}

InitLoader ==
    /\ Still
    /\ fn_in \in LoaderFiles
    /\ fn_out = <<>>

ApplyLoad ==
    /\ fn_out = <<>>
    /\ fn_out' = <<load_findmy_items_via_plutil(fn_in)>>
    /\ UNCHANGED <<mainVars, fn_in>>

SpecLoader == InitLoader /\ [][ApplyLoad]_vars

(* push_to_github *)
PublishFiles ==
    {NoHistoryFile,
     save_history(<<Entry(Num(1), Num(1), None, Num(1715000), Addr(0), Stamp(1))>>)}

\* The working file, the committed file, the pushed file, whether .git
\* exists, and how the git commands end.
InitPublish ==
    /\ Still
    /\ fn_in \in [file : PublishFiles, head : PublishFiles, remote : PublishFiles,
                  is_repo : BOOLEAN, o : GitOutcomes]
    /\ fn_out = <<>>

ApplyPublish ==
    /\ fn_out = <<>>
    /\ fn_out' = <<push_to_github(fn_in.file, fn_in.head, fn_in.remote,
                                  fn_in.is_repo, fn_in.o)>>
    /\ UNCHANGED <<mainVars, fn_in>>

SpecPublish == InitPublish /\ [][ApplyPublish]_vars

(***************************************************************************)
(* Claims about one extraction run and the poll cycle (Spec).              *)
(***************************************************************************)
\* The least element of a non-empty set of indices.
Least(S) == CHOOSE i \in S : \A j \in S : i <= j

\* load_history returns for this file (it is absent, or it parses).
Loadable(file) == ~file.exists \/ file.parses

IsPrefix(a, b) == Len(a) <= Len(b) /\ SubSeq(b, 1, Len(a)) = a

\* The child has come to the end of main, or past its change detection.
RunEnded == epc \in {"finish", "done"}

\* The matched entity has both coordinates.
EntityLocated ==
    /\ airtag # <<>>
    /\ Get0(airtag[1].latitude) # None
    /\ Get0(airtag[1].longitude) # None

\* The matched entity's coordinates are those of the last entry of the log
\* the run started from.
SameAsLast(log) ==
    /\ log # <<>>
    /\ log[Len(log)].latitude = Get0(airtag[1].latitude)
    /\ log[Len(log)].longitude = Get0(airtag[1].longitude)

\* C1: a run whose matched entity has latitude and longitude, and whose loaded
\* log is empty or ends with other coordinates, appends exactly one entry
\* with those coordinates and a recorded_at stamp at the end of the log,
\* saves the file and prints "New location recorded!".
C1_ChangeRecorded ==
    (RunEnded /\ EntityLocated /\ Loadable(run_start_file)
        /\ ~SameAsLast(load_history(run_start_file))) =>
        LET old == load_history(run_start_file)
            new == load_history(history_file)
        IN  /\ saved
            /\ history_file.exists /\ history_file.parses
            /\ Len(new) = Len(old) + 1
            /\ IsPrefix(old, new)
            /\ new[Len(new)].latitude = Get0(airtag[1].latitude)
            /\ new[Len(new)].longitude = Get0(airtag[1].longitude)
            /\ new[Len(new)].recorded_at = Stamp(cycle)
            /\ printed("New location recorded!", stdout)

\* C1 witness: a run that started from a log ending elsewhere has recorded
\* the new position and exited.
C1_Witness ==
    /\ epc = "done"
    /\ EntityLocated
    /\ Loadable(run_start_file)
    /\ load_history(run_start_file) # <<>>
    /\ ~SameAsLast(load_history(run_start_file))
    /\ Len(load_history(history_file)) = Len(load_history(run_start_file)) + 1
    /\ printed("New location recorded!", stdout)

\* C2: a run whose matched entity has the coordinates of the last entry of
\* the loaded log appends nothing, does not call save_history and prints
\* "Location unchanged"; and a run that reads the same cache as the run
\* before it leaves the file as that run left it.
C2_UnchangedIdempotent ==
    /\ (RunEnded /\ EntityLocated /\ Loadable(run_start_file)
           /\ SameAsLast(load_history(run_start_file))) =>
          /\ ~saved
          /\ history_file = run_start_file
          /\ printed("Location unchanged since last check", stdout)
          /\ ~printed("New location recorded!", stdout)
    /\ (epc = "done" /\ prev_run # <<>> /\ prev_run[1].cache = cache) =>
          history_file = prev_run[1].file

\* C2 witness: the second run over the same cache, whose AirTag is where the
\* log ends, has exited reporting "unchanged".
C2_Witness ==
    /\ epc = "done"
    /\ prev_run # <<>>
    /\ prev_run[1].cache = cache
    /\ EntityLocated
    /\ SameAsLast(load_history(run_start_file))
    /\ printed("Location unchanged since last check", stdout)
    /\ history_file = prev_run[1].file

CacheMissing == \A i \in 1..Len(cache.exists) : ~cache.exists[i]

NoUsableData ==
    /\ ~CacheMissing
    /\ LET f == cache.files[Least({i \in 1..Len(cache.exists) : cache.exists[i]})]
       IN  /\ f.json_run # "ok" \/ f.json_data = NoData
           /\ f.raw_run # "ok" \/ f.json_run = "ok"

ItemsEmpty == data # NoData /\ epc # "build" /\ items = <<>>

NoMatch == items # <<>> /\ \A i \in 1..Len(items) :
    /\ ~contains(lower(AIRTAG_NAME), lower(item_name(items[i])))
    /\ ~contains(lower(item_name(items[i])), lower(AIRTAG_NAME))

LatLonUnset ==
    /\ airtag # <<>>
    /\ Get0(airtag[1].latitude) = None \/ Get0(airtag[1].longitude) = None

Unavailable == CacheMissing \/ NoUsableData \/ ItemsEmpty \/ NoMatch \/ LatLonUnset

\* C4: a run that finds no cache file, gets no data from plutil, builds an
\* empty item list, finds no item of the AirTag's name, or finds the matched
\* item without latitude or longitude goes no further: it neither loads nor
\* saves the history, leaves location_history.json as it was, and returns
\* from main rather than dying of an exception.
C4_UnavailableInput ==
    (epc \in {"build", "detect", "record", "finish", "done", "crashed"} /\ Unavailable) =>
        /\ epc \in {"build", "done"}
        /\ ~saved
        /\ history = <<>>
        /\ history_file = run_start_file

\* C4 witness: the AirTag was found with a latitude and no longitude, and the
\* run returned after "No location data available".
C4_Witness ==
    /\ epc = "done"
    /\ airtag # <<>>
    /\ IsNum(Get0(airtag[1].latitude))
    /\ Get0(airtag[1].longitude) = None
    /\ printed("No location data available", stdout)
    /\ history_file = run_start_file

\* C5: the entry a run appends has the matched entity's timestamp t when t is
\* at most 1e12, and t / 1000 when t is above 1e12.
C5_TimestampNormalized ==
    (RunEnded /\ saved /\ IsNum(airtag[1].timestamp)) =>
        LET t == airtag[1].timestamp[2]
            log == load_history(history_file)
            e == log[Len(log)]
        IN  /\ t <= MsThreshold => e.timestamp = Num(t)
            /\ t > MsThreshold => e.timestamp = Num(t \div MsFactor)

\* C5 witness: an entity with a millisecond timestamp was recorded with a
\* smaller one.
C5_Witness ==
    /\ epc = "done"
    /\ saved
    /\ IsNum(airtag[1].timestamp)
    /\ airtag[1].timestamp[2] > MsThreshold
    /\ LET log == load_history(history_file)
       IN  log[Len(log)].timestamp[2] < airtag[1].timestamp[2]

\* C10: push_to_github is called in a cycle only if run_extractor logged a new
\* location in that cycle, and by the end of the cycle it has been called if
\* (and only if) it did; a cycle whose extractor reported "unchanged" or
\* nothing recognizable, timed out or could not be started publishes nothing.
C10_PublishOnlyOnChange ==
    /\ push_invoked => daemon_log = "new"
    /\ git_calls # <<>> => daemon_log = "new"
    /\ dpc = "sleep" => (push_invoked <=> daemon_log = "new")

\* C10 witness: a cycle has ended in which a new location was logged and the
\* three git commands were run.
C10_Witness ==
    /\ dpc = "sleep"
    /\ daemon_log = "new"
    /\ push_invoked
    /\ git_calls = <<"add", "commit", "push">>

\* C11 (SpecLive): whatever a cycle met (the child hung and was killed, died,
\* could not be started, printed nothing recognizable; no .git, a git
\* command failed or raised), the daemon comes to the end of the cycle and
\* sleeps, and from every cycle below MaxCycles it goes on to the next one.
C11_LoopNeverStops ==
    /\ [](dpc # "sleep" => <>(dpc = "sleep"))
    /\ \A c \in 1..(MaxCycles - 1) : [](cycle = c => <>(cycle = c + 1))

\* C11 witness: the second cycle is about to start after a cycle whose child
\* was killed by the timeout.
C11_Witness ==
    /\ cycle = 2
    /\ dpc = "refresh"
    /\ daemon_log = "timeout"
    /\ epc = "killed"

\* C12, as stated: a cycle that follows a cycle whose git commands failed
\* calls push_to_github again.
C12_RetriedNextCycle ==
    (dpc = "sleep" /\ prev_publish_failed) => push_invoked

\* C12, amended: a failed publish is not retried within its cycle (each git
\* command runs at most once), and the cycle after it calls push_to_github
\* if and only if its own run_extractor logged a new location; when it does
\* not, the file is still not on the remote.
C12_RetriedOnNextChange ==
    /\ IsPrefix(git_calls, <<"add", "commit", "push">>)
    /\ (dpc = "sleep" /\ prev_publish_failed) =>
          /\ push_invoked <=> daemon_log = "new"
          /\ ~push_invoked => git_remote # history_file

\* C12 witness: the publish of the first cycle failed, the second cycle found
\* the location unchanged and ended without calling push_to_github.
C12_Witness ==
    /\ dpc = "sleep"
    /\ prev_publish_failed
    /\ daemon_log = "unchanged"
    /\ ~push_invoked
    /\ git_remote # history_file

\* C13: when the child is killed by the timeout, run_extractor returns False
\* and location_history.json is what it was when the cycle began.
C13_TimeoutDiscards ==
    daemon_log = "timeout" =>
        /\ new_location = FALSE
        /\ history_file = cycle_start_file

\* The child has passed load_history (line 276).
HistoryLoaded == history # <<>>

\* The file the run started from exists and json.load raises on it.
Malformed(file) == file.exists /\ ~file.parses

\* C14: a run that finds no location_history.json works on the empty list of
\* locations, and what it saves is its one new entry; load_history returns
\* only for a file that is absent or parses; a run that comes to change
\* detection over a file that does not parse dies there of the exception,
\* having printed neither "New location recorded!" nor "Location unchanged"
\* and without writing the file.
C14_HistoryLoad ==
    /\ (HistoryLoaded /\ ~run_start_file.exists) =>
          IF saved
          THEN Len(history[1]) = 1 /\ load_history(history_file) = history[1]
          ELSE history[1] = <<>> /\ history_file = run_start_file
    /\ HistoryLoaded => Loadable(run_start_file)
    /\ (location # <<>> /\ epc # "detect" /\ Malformed(run_start_file)) =>
          epc = "crashed"
    /\ epc = "crashed" =>
          /\ Malformed(run_start_file)
          /\ ~HistoryLoaded
          /\ ~saved
          /\ history_file = run_start_file
          /\ ~printed("New location recorded!", stdout)
          /\ ~printed("Location unchanged since last check", stdout)

\* C14 witness: a run with a located AirTag has died at load_history over a
\* file that does not parse, and the file is still there as it was.
C14_Witness ==
    /\ epc = "crashed"
    /\ location # <<>>
    /\ Malformed(history_file)
    /\ history_file = run_start_file

\* C15: the items built from a mapping with an "$objects" array are those
\* built from the same array at the top level (latitude, longitude, accuracy
\* and timestamp pulled from each element's nested location).
C15_ObjectsNormalized ==
    (epc \in {"detect", "record", "finish", "done"} /\ format_type = "json"
        /\ data.type = "dict" /\ data.objects_key) =>
        items = build_items(Data("list", data.elems, FALSE), "json")

\* The places the daemon goes through, one after the other (from
\* run_extractor straight to the decision when the child cannot be started).
OrderPairs ==
    {<<"refresh", "settle">>, <<"settle", "run_extractor">>,
     <<"run_extractor", "wait">>, <<"run_extractor", "decide">>,
     <<"wait", "decide">>, <<"decide", "sleep">>, <<"sleep", "refresh">>}

NoChild == epc \in {"off", "killed"}

\* C17: the daemon starts at the refresh of its first cycle; it goes through
\* refresh, settle delay, run_extractor, the decision and the sleep in that
\* order, a new cycle beginning only after the sleep; push_to_github is
\* called only at the decision and only for a new location; after the settle
\* delay run_extractor can start the child whatever the refresh did; the
\* child is started only by run_extractor and only when none is running, and
\* none is running outside run_extractor's wait.
C17_CycleOrder ==
    /\ dpc = "refresh" /\ cycle = 1 /\ NoChild
    /\ [][/\ dpc' # dpc => <<dpc, dpc'>> \in OrderPairs
          /\ cycle' # cycle =>
                dpc = "sleep" /\ dpc' = "refresh" /\ cycle' = cycle + 1
          /\ (epc' = "locate" /\ epc # "locate") =>
                dpc = "run_extractor" /\ dpc' = "wait" /\ NoChild
          /\ (push_invoked' /\ ~push_invoked) =>
                dpc = "decide" /\ new_location]_vars
    /\ [](dpc # "wait" => NoChild)
    /\ [](dpc = "run_extractor" => ENABLED DaemonSpawn)

\* C17 witness: the second cycle has come to run_extractor after a refresh
\* that failed; the first cycle's child was killed by the timeout.
C17_Witness ==
    /\ cycle = 2
    /\ dpc = "run_extractor"
    /\ refresh_failed
    /\ epc = "killed"

\* C19: every entry of the saved log has a number for its timestamp.
C19_TimestampNumeric ==
    Loadable(history_file) =>
        \A i \in 1..Len(load_history(history_file)) :
            IsNum(load_history(history_file)[i].timestamp)

SamePlace(a, b) == a.latitude = b.latitude /\ a.longitude = b.longitude

\* C20: every entry of the saved log has a latitude and a longitude, no two
\* adjacent entries have the same latitude and longitude, and a run whose
\* AirTag is at the place of an earlier entry that is not the last one
\* appends a new entry.
C20_LogInvariant ==
    /\ Loadable(history_file) =>
          LET log == load_history(history_file)
          IN  /\ \A i \in 1..Len(log) : IsNum(log[i].latitude) /\ IsNum(log[i].longitude)
              /\ \A i \in 1..(Len(log) - 1) : ~SamePlace(log[i], log[i + 1])
    /\ (RunEnded /\ EntityLocated /\ Loadable(run_start_file)) =>
          LET old == load_history(run_start_file)
              new == load_history(history_file)
          IN  \A i \in 1..(Len(old) - 1) :
                  (/\ old[i].latitude = Get0(airtag[1].latitude)
                   /\ old[i].longitude = Get0(airtag[1].longitude)
                   /\ ~SamePlace(old[i], old[Len(old)])) =>
                      /\ Len(new) = Len(old) + 1
                      /\ SamePlace(new[Len(new)], old[i])

\* C20 witness: the AirTag went away and came back; the log holds the first
\* place, the second, and the first again.
C20_Witness ==
    /\ epc = "done"
    /\ Loadable(history_file)
    /\ LET log == load_history(history_file)
       IN  /\ Len(log) = 3
           /\ SamePlace(log[1], log[3])
           /\ ~SamePlace(log[1], log[2])

(***************************************************************************)
(* Claims about push_to_github (SpecPublish).                              *)
(***************************************************************************)
\* `git commit` finds the added file equal to the committed one.
NothingToCommit(i) == i.o.add = "ok" /\ i.o.commit = "ok" /\ i.file = i.head

\* C18: the git commands push_to_github runs are a prefix of add, commit,
\* push; it runs none when pushing is disabled or there is no .git; when
\* `git commit` reports "nothing to commit" it stops after the commit, with
\* the committed and the pushed file as they were; when add and commit come
\* back otherwise, push is run.
C18_PublishSequence ==
    fn_out # <<>> =>
        LET i == fn_in
            r == fn_out[1]
        IN  /\ IsPrefix(r.calls, <<"add", "commit", "push">>)
            /\ (~GITHUB_PUSH_ENABLED \/ ~i.is_repo) =>
                  /\ r.calls = <<>>
                  /\ r.head = i.head
                  /\ r.remote = i.remote
            /\ (GITHUB_PUSH_ENABLED /\ i.is_repo) => r.calls # <<>>
            /\ (GITHUB_PUSH_ENABLED /\ i.is_repo /\ NothingToCommit(i)) =>
                  /\ r.calls = <<"add", "commit">>
                  /\ r.head = i.head
                  /\ r.remote = i.remote
            /\ (GITHUB_PUSH_ENABLED /\ i.is_repo /\ i.o.add = "ok"
                   /\ i.o.commit # "raise" /\ ~NothingToCommit(i)) =>
                  r.calls = <<"add", "commit", "push">>

\* C18 witness: in a repository whose committed file is the working file,
\* the publish ran add and commit and stopped, though the pushed file is
\* behind.
C18_Witness ==
    /\ fn_out # <<>>
    /\ fn_in.is_repo
    /\ NothingToCommit(fn_in)
    /\ fn_in.remote # fn_in.head
    /\ fn_out[1].calls = <<"add", "commit">>
    /\ fn_out[1].remote = fn_in.remote

(***************************************************************************)
(* Claims about find_airtag (SpecMatch).                                   *)
(***************************************************************************)
\* Two strings are equal up to the case of their letters.
SameIgnoringCase(a, b) ==
    /\ Len(a) = Len(b)
    /\ \A i \in 1..Len(a) : LowerChar(a[i]) = LowerChar(b[i])

ExactMatches(its, target) ==
    {i \in 1..Len(its) : SameIgnoringCase(item_name(its[i]), target)}

SubstringMatches(its, target) ==
    {i \in 1..Len(its) :
        \/ contains(lower(target), lower(item_name(its[i])))
        \/ contains(lower(item_name(its[i])), lower(target))}

\* C6: find_airtag returns the first item whose name equals the target up to
\* case; if there is none, the first item whose lowercased name contains the
\* lowercased target or is contained in it; if there is none, None.
C6_FindAirtag ==
    fn_out # <<>> =>
        LET its == fn_in.items
            E == ExactMatches(its, fn_in.name)
            P == SubstringMatches(its, fn_in.name)
        IN  fn_out[1] = IF E # {} THEN <<its[Least(E)]>>
                        ELSE IF P # {} THEN <<its[Least(P)]>>
                        ELSE <<>>

\* C6 witness: a substring match comes first in the list, an exact match
\* second, and the exact match is what find_airtag returned.
C6_Witness ==
    /\ fn_out # <<>>
    /\ Len(fn_in.items) = 2
    /\ 1 \in SubstringMatches(fn_in.items, fn_in.name)
    /\ ExactMatches(fn_in.items, fn_in.name) = {2}
    /\ fn_out[1] = <<fn_in.items[2]>>

(***************************************************************************)
(* Claims about parse_raw_plutil_output (SpecParse).                       *)
(***************************************************************************)
NameLines(lines) == {i \in 1..Len(lines) : lines[i].key = "name"}

\* The block of the name line i: the lines after it up to the next name line.
BlockOf(lines, i) ==
    LET later == {j \in NameLines(lines) : j > i}
    IN  (i + 1)..(IF later = {} THEN Len(lines) ELSE Least(later) - 1)

FieldLines(lines, i, key) == {j \in BlockOf(lines, i) : lines[j].key = key}

Greatest(S) == CHOOSE i \in S : \A j \in S : j <= i

\* The value of the last line with that key in the block, None if there is none.
BlockField(lines, i, key) ==
    IF FieldLines(lines, i, key) = {} THEN None
    ELSE lines[Greatest(FieldLines(lines, i, key))].val

\* The name lines whose block holds a latitude line.
Located(lines) == {i \in NameLines(lines) : FieldLines(lines, i, "latitude") # {}}

\* The elements of a set of indices, in increasing order.
RECURSIVE Ascending(_)
Ascending(S) == IF S = {} THEN <<>> ELSE <<Least(S)>> \o Ascending(S \ {Least(S)})

\* C7: the parser gives one record for each name line whose block holds a
\* latitude line, in the order of the name lines; the record's name, latitude
\* and longitude are those of that block (the last of each), the longitude
\* unset when the block has none.
C7_ParseBlocks ==
    fn_out # <<>> =>
        LET lines == fn_in
            recs == fn_out[1]
            at == Ascending(Located(lines))
        IN  /\ Len(recs) = Len(at)
            /\ \A k \in 1..Len(at) :
                  /\ recs[k].name = lines[at[k]].val
                  /\ recs[k].latitude = BlockField(lines, at[k], "latitude")
                  /\ recs[k].longitude = BlockField(lines, at[k], "longitude")

\* C7 witness: two sibling name/latitude/longitude blocks with different
\* names and coordinates gave two records.
C7_Witness ==
    /\ fn_out # <<>>
    /\ Len(fn_in) = 6
    /\ [i \in 1..6 |-> fn_in[i].key] =
          <<"name", "latitude", "longitude", "name", "latitude", "longitude">>
    /\ fn_in[1].val # fn_in[4].val
    /\ fn_in[2].val # fn_in[5].val
    /\ fn_in[3].val # fn_in[6].val
    /\ Len(fn_out[1]) = 2

\* The last line of the block of the name line i (i itself for an empty block).
BlockEnd(lines, i) ==
    LET later == {j \in NameLines(lines) : j > i}
    IN  IF later = {} THEN Len(lines) ELSE Least(later) - 1

\* The value of the last line with that key among the first n lines, None if
\* there is none.
LastSeen(lines, n, key) ==
    LET at == {j \in 1..n : lines[j].key = key}
    IN  IF at = {} THEN None ELSE lines[Greatest(at)].val

\* C16 (SpecFields): a record is flushed for each name line whose block holds
\* a latitude line; its latitude and longitude are its own block's (unset
\* when the block has none: a name line resets them), while its accuracy and
\* timestamp are the last ones seen anywhere in the input up to the end of
\* its block (a name line leaves them as they are).
C16_FlushReset ==
    fn_out # <<>> =>
        LET lines == fn_in
            recs == fn_out[1]
            at == Ascending(Located(lines))
        IN  /\ Len(recs) = Len(at)
            /\ \A k \in 1..Len(at) :
                  /\ recs[k].latitude = BlockField(lines, at[k], "latitude")
                  /\ recs[k].longitude = BlockField(lines, at[k], "longitude")
                  /\ recs[k].accuracy =
                        LastSeen(lines, BlockEnd(lines, at[k]), "horizontalAccuracy")
                  /\ recs[k].timestamp =
                        LastSeen(lines, BlockEnd(lines, at[k]), "timeStamp")

\* C16 witness: the first block has a longitude and an accuracy, the second
\* has neither; the second record has no longitude and the first's accuracy.
C16_Witness ==
    /\ fn_out # <<>>
    /\ Len(fn_in) = 5
    /\ [i \in 1..5 |-> fn_in[i].key] =
          <<"name", "latitude", "horizontalAccuracy", "name", "latitude">>
    /\ Len(fn_out[1]) = 2
    /\ fn_out[1][1].accuracy = fn_in[3].val
    /\ fn_out[1][2].accuracy = fn_in[3].val
    /\ fn_out[1][2].longitude = None

(***************************************************************************)
(* Claims about the structured branch (SpecItems).                         *)
(***************************************************************************)
\* C8: for a JSON array the item list has one item per record, in order, its
\* name the record's or "Unknown"; when the record's location is a mapping
\* the item's latitude, longitude, accuracy and timestamp read as the
\* mapping's latitude, longitude, horizontalAccuracy and timeStamp do; when
\* it is not, the item has no latitude and no longitude.
C8_StructuredItems ==
    fn_out # <<>> =>
        LET recs == fn_in
            out == fn_out[1]
        IN  /\ Len(out) = Len(recs)
            /\ \A i \in 1..Len(recs) :
                  /\ out[i].name = IF recs[i].name = Absent THEN Str(Unknown)
                                   ELSE recs[i].name
                  /\ IF IsMap(recs[i].location)
                     THEN LET loc == recs[i].location[2]
                          IN  /\ Get0(out[i].latitude) = Get0(loc.latitude)
                              /\ Get0(out[i].longitude) = Get0(loc.longitude)
                              /\ Get0(out[i].accuracy) = Get0(loc.horizontalAccuracy)
                              /\ Get0(out[i].timestamp) = Get0(loc.timeStamp)
                     ELSE /\ out[i].latitude = Absent
                          /\ out[i].longitude = Absent

\* C8 witness: a named record with a full location mapping followed by a
\* nameless record without one.
C8_Witness ==
    /\ fn_out # <<>>
    /\ Len(fn_in) = 2
    /\ fn_in[1].location = Map(Loc(Num(1), Num(2), Num(5), Num(1715000)))
    /\ fn_in[2].location = Absent
    /\ fn_in[2].name = Absent
    /\ fn_out[1][1].latitude = Num(1)
    /\ fn_out[1][1].timestamp = Num(1715000)
    /\ fn_out[1][2].name = Str(Unknown)
    /\ Get0(fn_out[1][2].latitude) = None

(***************************************************************************)
(* Claims about load_findmy_items_via_plutil (SpecLoader).                 *)
(***************************************************************************)
\* C9: the loader calls plutil in JSON mode first; when that exits 0 with
\* output that parses it returns (data, "json") and makes no second call;
\* the `plutil -p` call is made only after the first attempt failed, and
\* when it exits 0 the loader returns (its text, "raw"); when both fail it
\* returns (None, None); no exception leaves the loader.
C9_LoaderFallback ==
    fn_out # <<>> =>
        LET f == fn_in
            r == fn_out[1]
        IN  /\ ~r.raised
            /\ r.calls[1] = "json"
            /\ (\E i \in 1..Len(r.calls) : r.calls[i] = "raw") => f.json_run # "ok"
            /\ f.json_run = "ok" =>
                  /\ r.data = f.json_data
                  /\ r.format_type = "json"
                  /\ r.calls = <<"json">>
            /\ (f.json_run # "ok" /\ f.raw_run = "ok") =>
                  /\ r.data = Data("str", f.raw_lines, FALSE)
                  /\ r.format_type = "raw"
                  /\ r.calls = <<"json", "raw">>
            /\ (f.json_run # "ok" /\ f.raw_run # "ok") =>
                  /\ r.data = NoData
                  /\ r.format_type = "none"

\* C9 witness: plutil's JSON output did not parse, and the text dump came back.
C9_Witness ==
    /\ fn_out # <<>>
    /\ fn_in.json_run = "malformed"
    /\ fn_in.raw_run = "ok"
    /\ fn_in.raw_lines # <<>>
    /\ fn_out[1].format_type = "raw"
    /\ fn_out[1].data.elems = fn_in.raw_lines

====
